---- MODULE Spec2Model ----
(***************************************************************************)
(* The dual-persistence core of Wanderlust Traces: ApiService (the         *)
(* Persistence Gateway over fetch and localStorage) and the node server    *)
(* that is its remote store.  Every `await` of an async handler is a yield *)
(* point, so a handler is a chain of actions over a call record.           *)
(***************************************************************************)
EXTENDS Integers, Sequences, FiniteSets, TLC

\* ------------------------------------------------------------------ bounds
\* Largest value of the millisecond clock (Date.now()).
MaxTime == 3
\* Largest number of entries a collection (remote, mirror, import) may hold.
MaxLen == 2

\* --------------------------------------------------------------- constants
\* The id of the entry initDb seeds the database with: id: '1'.
SeedId == 1

\* ------------------------------------------------------------------- data
\* An id is a string; the model keeps its prefix and its digits apart:
\* `local-${Date.now()}` is [pre |-> "local-", num |-> t] and
\* Date.now().toString() is [pre |-> "", num |-> t].
Prefixes == {"", "local-"}

Notes == {"Park walk", "New spot"}

LocalId(t) == [pre |-> "local-", num |-> t]

RemoteId(t) == [pre |-> "", num |-> t]

IsLocalId(id) == id.pre = "local-"

NoId == [pre |-> "", num |-> 0]

\* Omit<JournalEntry, 'id'>: timestamp 0 stands for a falsy (empty) timestamp.
Payloads == {[timestamp |-> 0, note |-> "New spot"], [timestamp |-> 1, note |-> "Park walk"]}

NoPayload == [timestamp |-> 0, note |-> ""]

WithId(p, id) == [id |-> id, timestamp |-> p.timestamp, note |-> p.note]

SeedEntry == [id |-> RemoteId(SeedId), timestamp |-> 1, note |-> "Park walk"]

\* The entries a supplied snapshot (import) is made of.
SampleEntries == {SeedEntry, [id |-> LocalId(SeedId + 1), timestamp |-> 0, note |-> "New spot"]}

SeqsUpTo(S, n) == UNION {[1..k -> S] : k \in 0..n}

ImportSets == SeqsUpTo(SampleEntries, MaxLen)

Ids(s) == {s[i].id : i \in 1..Len(s)}

\* ---------------------------------------------------------------- JSON text
\* A JSON text is a sequence of tokens; a token is a 4-tuple so that any two
\* tokens can be compared.  "[" and "]" delimit an array, one token is an object.
LB == <<"[", 0, 0, "">>

RB == <<"]", 0, 0, "">>

Tok(e) == <<e.id.pre, e.id.num, e.timestamp, e.note>>

UnTok(t) == [id |-> [pre |-> t[1], num |-> t[2]], timestamp |-> t[3], note |-> t[4]]

IsObjectTok(t) == t[1] \in Prefixes

\* JSON.stringify of an array of entries.
Stringify(arr) == <<LB>> \o [i \in 1..Len(arr) |-> Tok(arr[i])] \o <<RB>>

\* JSON.stringify of one entry.
StringifyEntry(e) == <<Tok(e)>>

\* JSON.parse succeeds on the text of an array of objects ...
IsArrayText(t) ==
  /\ Len(t) >= 2
  /\ t[1] = LB
  /\ t[Len(t)] = RB
  /\ \A i \in 2..(Len(t) - 1) : IsObjectTok(t[i])

\* ... and on the text of one object; on anything else it throws.
IsEntryText(t) == Len(t) = 1 /\ IsObjectTok(t[1])

Parse(t) == [i \in 1..(Len(t) - 2) |-> UnTok(t[i + 1])]

ParseEntry(t) == UnTok(t[1])

\* A response body cut short on the wire: response.json() rejects on it.
Garble(t) == SubSeq(t, 1, Len(t) - 1)

\* ------------------------------------------------------------ localStorage
\* The value under STORAGE_KEY: absent (getItem gives null) or a text.
AbsentValue == [present |-> FALSE, text |-> <<>>]

TextValue(t) == [present |-> TRUE, text |-> t]

Threw == [ok |-> FALSE, val |-> <<>>]

Returned(v) == [ok |-> TRUE, val |-> v]

\* Mutant: getLocalEntries without the `stored ?` guard.
GetLocalEntriesNoGuard(stored) ==
  IF IsArrayText(stored.text) THEN Returned(Parse(stored.text)) ELSE Threw

\* getLocalEntries: `stored ? JSON.parse(stored) : []` (null and "" are falsy).
GetLocalEntries(stored) ==
  IF ~stored.present \/ stored.text = <<>>
    THEN Returned(<<>>)
    ELSE IF IsArrayText(stored.text) THEN Returned(Parse(stored.text)) ELSE Threw

\* ------------------------------------------------------------------ server
\* GET /entries: res.end(JSON.stringify(entries)).
ServerGetEntries(entries) == Stringify(entries)

\* The body of a POST as getBody parses it: an object that may have an id.
\* JSON.stringify(entry) of createEntry line 48 has none.
RequestBody(entry) ==
  [hasId |-> FALSE, id |-> NoId, timestamp |-> entry.timestamp, note |-> entry.note]

\* What other clients may post: the bodies ApiService sends and one that
\* carries the id of the seeded entry.
PostBodies ==
  {RequestBody(p) : p \in Payloads}
    \cup {[hasId |-> TRUE, id |-> RemoteId(SeedId), timestamp |-> 0, note |-> "New spot"]}

\* POST /entries lines 72-76: { id: Date.now().toString(), ...data, timestamp:
\* data.timestamp || new Date().toISOString() }; the spread comes after id,
\* so an id of the body replaces the server's.
ServerNewEntry(data, t) ==
  [id |-> IF data.hasId THEN data.id ELSE RemoteId(t),
   timestamp |-> IF data.timestamp # 0 THEN data.timestamp ELSE t,
   note |-> data.note]

\* Mutant: the new entry is put in front, entries.unshift(newEntry).
ServerPostEntryUnshift(entries, data, t) == <<ServerNewEntry(data, t)>> \o entries

\* POST /entries line 77: entries.push(newEntry).
ServerPostEntry(entries, data, t) == Append(entries, ServerNewEntry(data, t))

\* DELETE /entries/:id: entries.filter(e => e.id !== id).
ServerDeleteEntry(entries, id) ==
  LET Keep(e) == e.id # id IN SelectSeq(entries, Keep)

\* ------------------------------------------------------------------ client
\* getEntries line 32: the text the mirror is overwritten with.
ListMirrorUpdate(data) == Stringify(data)

\* Mutant: the accepted entry is put in front, [saved, ...local].
CreateMirrorPrepend(local, saved) == Stringify(<<saved>> \o local)

\* createEntry line 55: JSON.stringify([...local, saved]).
CreateMirrorUpdate(local, saved) == Stringify(Append(local, saved))

\* Mutant: the minted id lacks the local-origin prefix.
NewLocalEntryNoPrefix(entry, t) == WithId(entry, RemoteId(t))

\* createLocalEntry line 87: { ...entry, id: `local-${Date.now()}` }.
NewLocalEntry(entry, t) == WithId(entry, LocalId(t))

\* createLocalEntry line 89: JSON.stringify([...entries, newEntry]).
LocalCreateMirrorUpdate(entries, newEntry) == Stringify(Append(entries, newEntry))

\* Mutant: the filter's test is inverted, filter(e => e.id === id).
DeleteFilterInverted(entries, id) ==
  LET Keep(e) == e.id = id IN SelectSeq(entries, Keep)

\* Mutant: splice(findIndex(...), 1), which cuts the last entry when none matches.
DeleteSplice(entries, id) ==
  IF id \in Ids(entries)
    THEN LET i == CHOOSE j \in 1..Len(entries) :
                    entries[j].id = id /\ \A h \in 1..(j - 1) : entries[h].id # id
         IN SubSeq(entries, 1, i - 1) \o SubSeq(entries, i + 1, Len(entries))
    ELSE SubSeq(entries, 1, Len(entries) - 1)

\* deleteEntry line 74 and deleteLocalEntry line 95: filter(e => e.id !== id).
DeleteFilter(entries, id) ==
  LET Keep(e) == e.id # id IN SelectSeq(entries, Keep)

\* Mutant: the snapshot is stored newest first.
ImportMirrorReversed(data) == Stringify([i \in 1..Len(data) |-> data[Len(data) + 1 - i]])

\* importEntries line 100: JSON.stringify(data).
ImportMirrorUpdate(data) == Stringify(data)

\* ------------------------------------------------------------------- state
VARIABLES
  now,        \* the last reading of Date.now(); client and server share a host
  remote,     \* the server's `entries`
  store,      \* localStorage[STORAGE_KEY], the on-device mirror
  quotaFull,  \* whether localStorage.setItem throws QuotaExceededError
  conc,       \* whether Gateway calls may overlap
  calls,      \* the Gateway calls, one record per caller
  probe,      \* the checkConnection call and its abort timer
  app,        \* the App's state fed by the probe
  http        \* the last exchange of another client of the remote store

vars == <<now, remote, store, quotaFull, conc, calls, probe, app, http>>

Callers == {"c1", "c2"}

\* A call record: the handler's position and locals, and (below the line)
\* what an observer of the call notes down: nothing the code reads.
IdleCall ==
  [op |-> "none", pc |-> "idle",
   entry |-> NoPayload, id |-> NoId, data |-> <<>>,
   status |-> "none", text |-> <<>>,
   saved |-> <<>>, newEntry |-> <<>>, local |-> <<>>, ret |-> <<>>,
   \* ------------------------------------------------------------------
   net |-> "none",        \* what happened to the request
   served |-> <<>>,       \* what the remote answered with
   repl |-> FALSE,        \* whether the mirror equalled the remote at the call
   was |-> "none",        \* what a list found under STORAGE_KEY at the call
   ovl |-> FALSE,         \* whether the other caller's call overlapped this one
   prevOp |-> "none",     \* the call before this one, when it was an import
   prevArr |-> <<>>,      \*   (its data) or an accepted create (its result)
   scen |-> 0,            \* the phase of the scenario of spec section 8
   scenOrig |-> <<>>]     \*   and the remote collection it started from

Settled(k) == k.pc \in {"done", "raised"}

InFlight(k) == k.pc \notin {"idle", "done", "raised"}

\* A caller may call when it is idle and, unless calls may overlap, no other
\* call is in flight (spec section 5: one at a time).
CanStart(c) ==
  /\ calls[c].pc = "idle"
  /\ c = CHOOSE x \in Callers : calls[x].pc = "idle"
  /\ conc \/ \A x \in Callers : calls[x].pc = "idle"

MirrorEntries == GetLocalEntries(store).val

\* A checkConnection call: its position and the timer of setTimeout (armed),
\* and below the line what an observer of the call notes down.
IdleProbe ==
  [pc |-> "idle", armed |-> FALSE, status |-> "none", ret |-> FALSE,
   \* ------------------------------------------------------------------
   net |-> "none",        \* what happened to the health request
   pings |-> 0]           \* the health requests this call has issued

\* Where the map can be clicked: Coordinates, as text.
Coords == {"52.5,13.4"}

\* useState<Coordinates | null>(null): no temporary marker.
NoMarker == "null"

\* useState<string | undefined>(undefined): no entry is selected.
NoSelection == [pre |-> "undefined", num |-> 0]

\* The App's state after the first render (part_002 lines 9-15); the flag is
\* "null", "true" or "false".  Below the line, what the closures of handlers
\* that are under way hold: the onSubmit (and with it the tempMarker) that
\* EntryForm.handleSubmit closed over while it reads the photo, and the
\* selectedEntryId that handleDeleteEntry closed over.
InitApp ==
  [isBackendOnline |-> "null", entries |-> <<>>, tempMarker |-> NoMarker,
   isFormOpen |-> FALSE, selectedEntryId |-> NoSelection,
   isLoading |-> TRUE, isSyncing |-> FALSE,
   \* ------------------------------------------------------------------
   submitMarker |-> "none",
   deleteSelected |-> NoSelection]

\* No request of another client has reached the server yet.
NoExchange == [method |-> "none", status |-> "none", text |-> <<>>]

\* What getItem(STORAGE_KEY) gives: null, a text JSON.parse takes for an array
\* (or the empty text, which is falsy), or a text JSON.parse throws on.
MirrorKind(stored) ==
  IF ~stored.present THEN "absent"
  ELSE IF GetLocalEntries(stored).ok THEN "array" ELSE "malformed"

\* The phase of the offline/reconnect scenario of spec section 8 the new call
\* is at: 1 the delete, 2 the create, 3 the list after both; 4 is the list
\* made right after the delete.
ScenAtStart(op, id, old) ==
  IF /\ op = "deleteEntry" /\ id = RemoteId(SeedId)
     /\ Len(remote) = 1 /\ remote[1].id = RemoteId(SeedId)
     /\ GetLocalEntries(store) = Returned(remote)
    THEN 1
    ELSE IF op = "createEntry" /\ old.scen = 1
      THEN 2
      ELSE IF op = "getEntries" /\ old.scen = 2
        THEN 3
        ELSE IF op = "getEntries" /\ old.scen = 1 THEN 4 ELSE 0

NewCall(op, id, old) ==
  LET ph == ScenAtStart(op, id, old) IN
  [IdleCall EXCEPT
     !.op = op, !.pc = "fetch", !.id = id,
     !.repl = (GetLocalEntries(store) = Returned(remote)),
     !.was = IF op = "getEntries" THEN MirrorKind(store) ELSE "none",
     !.ovl = \E x \in Callers : InFlight(calls[x]),
     !.prevOp = IF op = "getEntries" THEN old.prevOp ELSE "none",
     !.prevArr = IF op = "getEntries" THEN old.prevArr ELSE <<>>,
     !.scen = ph,
     !.scenOrig = IF ph = 1 THEN remote ELSE IF ph > 1 THEN old.scenOrig ELSE <<>>]

\* Caller c's call k begins; a call that is in flight is overlapped by it.
Started(c, k) ==
  [x \in Callers |->
     IF x = c THEN k
     ELSE IF InFlight(calls[x]) THEN [calls[x] EXCEPT !.ovl = TRUE] ELSE calls[x]]

Init ==
  /\ now = SeedId + 1
  /\ remote = <<SeedEntry>>
  /\ store = AbsentValue
  /\ quotaFull = FALSE
  /\ conc = FALSE
  /\ calls = [c \in Callers |-> IdleCall]
  /\ probe = IdleProbe
  /\ app = InitApp
  /\ http = NoExchange

\* ------------------------------------------------------------------- clock
\* Date.now() never runs backwards: a reading is the last one or later.
Readings == now..MaxTime

\* --------------------------------------------------------------- transport
\* The scenario goes on while its delete and its create find the remote
\* unreachable, and its last list finds it reachable again.
ScenAfter(ph, net) ==
  IF (ph \in {1, 2} /\ net = "unreachable") \/ (ph \in {3, 4} /\ net = "ok") THEN ph ELSE 0

\* The request reaches the server, which handles it (part_001 lines 66-88);
\* the body of the answer arrives whole or cut short.  deleteEntry reads the
\* status alone, so to it an answer cut short is an answer.
ServerRespond(c) ==
  /\ calls[c].pc = "fetch"
  /\ \E whole \in BOOLEAN, t \in Readings :
       LET k == calls[c]
           net == IF whole \/ k.op = "deleteEntry" THEN "ok" ELSE "garbled"
           issued == ServerNewEntry(RequestBody(k.entry), t)
           body == IF k.op = "getEntries" THEN ServerGetEntries(remote)
                   ELSE IF k.op = "createEntry" THEN StringifyEntry(issued)
                   ELSE <<>>
       IN /\ now' = IF k.op = "createEntry" THEN t ELSE now
          /\ remote' = IF k.op = "createEntry" THEN ServerPostEntry(remote, RequestBody(k.entry), t)
                       ELSE IF k.op = "deleteEntry" THEN ServerDeleteEntry(remote, k.id)
                       ELSE remote
          /\ calls' = [calls EXCEPT ![c] =
               [k EXCEPT !.pc = "resp", !.status = "ok",
                         !.text = IF whole THEN body ELSE Garble(body),
                         !.net = net,
                         !.scen = ScenAfter(k.scen, net),
                         !.served = IF k.op = "getEntries" THEN remote
                                    ELSE IF k.op = "createEntry" THEN <<issued>>
                                    ELSE <<>>]]
  /\ UNCHANGED <<store, quotaFull, conc, probe, app, http>>
\* The remote answers with a non-success status and changes nothing
\* (part_001 lines 89-96).
ServerError(c) ==
  /\ calls[c].pc = "fetch"
  /\ calls' = [calls EXCEPT ![c] =
       [@ EXCEPT !.pc = "resp", !.status = "notok", !.net = "status",
                 !.scen = ScenAfter(@, "status")]]
  /\ UNCHANGED <<now, remote, store, quotaFull, conc, probe, app, http>>
\* The request never reaches the remote: fetch rejects.
FetchRejects(c) ==
  /\ calls[c].pc = "fetch"
  /\ calls' = [calls EXCEPT ![c] =
       [@ EXCEPT !.pc = "resp", !.status = "rejected", !.net = "unreachable",
                 !.scen = ScenAfter(@, "unreachable")]]
  /\ UNCHANGED <<now, remote, store, quotaFull, conc, probe, app, http>>
\* ----------------------------------------------------------------- Gateway
\* The handler returns v (its locals die with it) or throws to its caller.
Done(k, v) ==
  [k EXCEPT !.pc = "done", !.ret = v, !.status = "none", !.text = <<>>,
            !.saved = <<>>, !.newEntry = <<>>, !.local = <<>>]

Raised(k) == [Done(k, <<>>) EXCEPT !.pc = "raised"]

\* Mutant: the catch gives up and returns [].
GetEntriesCatchEmpty(k, stored) == Done(k, <<>>)

\* getEntries lines 34-37, the catch: return this.getLocalEntries(), which
\* throws to the caller when the stored text does not parse.
GetEntriesCatch(k, stored) ==
  LET r == GetLocalEntries(stored) IN
  IF r.ok THEN Done(k, r.val) ELSE Raised(k)

\* createLocalEntry lines 87-88: mint the id, read the mirror, await.
CreateLocalEntry(k, stored, t) ==
  LET r == GetLocalEntries(stored) IN
  IF r.ok
    THEN [k EXCEPT !.pc = "lwrite", !.newEntry = <<NewLocalEntry(k.entry, t)>>, !.local = r.val]
    ELSE Raised(k)

\* deleteLocalEntry line 94: read the mirror, await.
DeleteLocalEntry(k, stored) ==
  LET r == GetLocalEntries(stored) IN
  IF r.ok THEN [k EXCEPT !.pc = "lwrite", !.local = r.val] ELSE Raised(k)

\* Mutant: the list asks the remote only when the last probe found it online.
GetEntriesCallIfOnline(c) ==
  /\ CanStart(c)
  /\ calls' = [calls EXCEPT ![c] =
       IF app.isBackendOnline = "false"
         THEN GetEntriesCatch(NewCall("getEntries", NoId, calls[c]), store)
         ELSE NewCall("getEntries", NoId, calls[c])]
  /\ UNCHANGED <<now, remote, store, quotaFull, conc, probe, app, http>>
\* getEntries line 28: fetch(API_URL) is issued.
GetEntriesCall(c) ==
  /\ CanStart(c)
  /\ calls' = Started(c, NewCall("getEntries", NoId, calls[c]))
  /\ UNCHANGED <<now, remote, store, quotaFull, conc, probe, app, http>>
\* getEntries lines 28-30: fetch settled; not ok or rejected goes to the catch.
GetEntriesResume(c) ==
  /\ calls[c].op = "getEntries" /\ calls[c].pc = "resp"
  /\ calls' = [calls EXCEPT ![c] =
       IF @.status = "ok" THEN [@ EXCEPT !.pc = "json"] ELSE GetEntriesCatch(@, store)]
  /\ UNCHANGED <<now, remote, store, quotaFull, conc, probe, app, http>>
\* Mutant: the fetched collection is returned but not written to the mirror.
GetEntriesJsonNoSync(c) ==
  /\ calls[c].op = "getEntries" /\ calls[c].pc = "json"
  /\ LET k == calls[c] IN
     IF IsArrayText(k.text) /\ ~quotaFull
       THEN /\ store' = store
            /\ calls' = [calls EXCEPT ![c] = Done(k, Parse(k.text))]
       ELSE /\ store' = store
            /\ calls' = [calls EXCEPT ![c] = GetEntriesCatch(k, store)]
  /\ UNCHANGED <<now, remote, quotaFull, conc, probe, app, http>>
\* Mutant: the local-origin entries of the mirror are kept after the fetched ones.
GetEntriesJsonKeepLocal(c) ==
  /\ calls[c].op = "getEntries" /\ calls[c].pc = "json"
  /\ LET k == calls[c]
         IsLocal(e) == IsLocalId(e.id)
         kept == SelectSeq(GetLocalEntries(store).val, IsLocal)
     IN
     IF IsArrayText(k.text) /\ ~quotaFull
       THEN /\ store' = TextValue(ListMirrorUpdate(Parse(k.text) \o kept))
            /\ calls' = [calls EXCEPT ![c] = Done(k, Parse(k.text) \o kept)]
       ELSE /\ store' = store
            /\ calls' = [calls EXCEPT ![c] = GetEntriesCatch(k, store)]
  /\ UNCHANGED <<now, remote, quotaFull, conc, probe, app, http>>
\* Mutant: the list reads the mirror before it overwrites it, so a text that
\* does not parse sends it to the catch.
GetEntriesJsonReadsMirror(c) ==
  /\ calls[c].op = "getEntries" /\ calls[c].pc = "json"
  /\ LET k == calls[c] IN
     IF IsArrayText(k.text) /\ ~quotaFull /\ GetLocalEntries(store).ok
       THEN /\ store' = TextValue(ListMirrorUpdate(Parse(k.text)))
            /\ calls' = [calls EXCEPT ![c] = Done(k, Parse(k.text))]
       ELSE /\ store' = store
            /\ calls' = [calls EXCEPT ![c] = GetEntriesCatch(k, store)]
  /\ UNCHANGED <<now, remote, quotaFull, conc, probe, app, http>>
\* Mutant: the list merges by id, keeping the mirror entries the fetched
\* collection does not have.
GetEntriesJsonMerge(c) ==
  /\ calls[c].op = "getEntries" /\ calls[c].pc = "json"
  /\ LET k == calls[c]
         Fresh(e) == e.id \notin Ids(Parse(k.text))
         kept == SelectSeq(GetLocalEntries(store).val, Fresh)
     IN
     IF IsArrayText(k.text) /\ ~quotaFull
       THEN /\ store' = TextValue(ListMirrorUpdate(Parse(k.text) \o kept))
            /\ calls' = [calls EXCEPT ![c] = Done(k, Parse(k.text))]
       ELSE /\ store' = store
            /\ calls' = [calls EXCEPT ![c] = GetEntriesCatch(k, store)]
  /\ UNCHANGED <<now, remote, quotaFull, conc, probe, app, http>>
\* getEntries lines 30-33: response.json() settled; overwrite the mirror, return data.
GetEntriesJson(c) ==
  /\ calls[c].op = "getEntries" /\ calls[c].pc = "json"
  /\ LET k == calls[c] IN
     IF IsArrayText(k.text) /\ ~quotaFull
       THEN /\ store' = TextValue(ListMirrorUpdate(Parse(k.text)))
            /\ calls' = [calls EXCEPT ![c] = Done(k, Parse(k.text))]
       ELSE /\ store' = store
            /\ calls' = [calls EXCEPT ![c] = GetEntriesCatch(k, store)]
  /\ UNCHANGED <<now, remote, quotaFull, conc, probe, app, http>>
\* createEntry line 45: fetch(API_URL, POST) is issued.
CreateEntryCall(c) ==
  /\ CanStart(c)
  /\ Len(remote) < MaxLen /\ Len(MirrorEntries) < MaxLen
  /\ \E p \in Payloads :
       calls' = Started(c, [NewCall("createEntry", NoId, calls[c]) EXCEPT !.entry = p])
  /\ UNCHANGED <<now, remote, store, quotaFull, conc, probe, app, http>>
\* createEntry lines 45-50: fetch settled; failure goes to createLocalEntry.
CreateEntryResume(c) ==
  /\ calls[c].op = "createEntry" /\ calls[c].pc = "resp"
  /\ \E t \in Readings :
       LET k == calls[c] IN
       IF k.status = "ok"
         THEN /\ now' = now
              /\ calls' = [calls EXCEPT ![c] = [k EXCEPT !.pc = "json"]]
         ELSE /\ now' = t
              /\ calls' = [calls EXCEPT ![c] = CreateLocalEntry(k, store, t)]
  /\ UNCHANGED <<remote, store, quotaFull, conc, probe, app, http>>
\* createEntry lines 51-54: response.json() settled; read the mirror, await.
CreateEntryJson(c) ==
  /\ calls[c].op = "createEntry" /\ calls[c].pc = "json"
  /\ \E t \in Readings :
       LET k == calls[c]
           r == GetLocalEntries(store)
       IN IF IsEntryText(k.text) /\ r.ok
            THEN /\ now' = now
                 /\ calls' = [calls EXCEPT ![c] =
                      [k EXCEPT !.pc = "write", !.saved = <<ParseEntry(k.text)>>, !.local = r.val]]
            ELSE /\ now' = t
                 /\ calls' = [calls EXCEPT ![c] = CreateLocalEntry(k, store, t)]
  /\ UNCHANGED <<remote, store, quotaFull, conc, probe, app, http>>
\* Mutant: a failed mirror write is compensated by taking the entry out of
\* the remote collection again.
CreateEntryWriteRollback(c) ==
  /\ calls[c].op = "createEntry" /\ calls[c].pc = "write"
  /\ LET k == calls[c] IN
     IF ~quotaFull
       THEN /\ store' = TextValue(CreateMirrorUpdate(k.local, k.saved[1]))
            /\ remote' = remote
            /\ calls' = [calls EXCEPT ![c] = Done(k, k.saved)]
       ELSE /\ store' = store
            /\ remote' = ServerDeleteEntry(remote, k.saved[1].id)
            /\ calls' = [calls EXCEPT ![c] = Raised(k)]
  /\ UNCHANGED <<now, quotaFull, conc, probe, app, http>>
\* createEntry lines 55-57: write [...local, saved], return saved.
CreateEntryWrite(c) ==
  /\ calls[c].op = "createEntry" /\ calls[c].pc = "write"
  /\ \E t \in Readings :
       LET k == calls[c] IN
       IF ~quotaFull
         THEN /\ now' = now
              /\ store' = TextValue(CreateMirrorUpdate(k.local, k.saved[1]))
              /\ calls' = [calls EXCEPT ![c] = Done(k, k.saved)]
         ELSE /\ now' = t
              /\ store' = store
              /\ calls' = [calls EXCEPT ![c] = CreateLocalEntry(k, store, t)]
  /\ UNCHANGED <<remote, quotaFull, conc, probe, app, http>>
\* Mutant: the entry is appended to what the mirror holds when it is written.
CreateLocalWriteMerge(c) ==
  /\ calls[c].op = "createEntry" /\ calls[c].pc = "lwrite"
  /\ LET k == calls[c] IN
     /\ store' = TextValue(LocalCreateMirrorUpdate(MirrorEntries, k.newEntry[1]))
     /\ calls' = [calls EXCEPT ![c] = Done(k, k.newEntry)]
  /\ UNCHANGED <<now, remote, quotaFull, conc, probe, app, http>>
\* createLocalEntry lines 89-90: write [...entries, newEntry], return newEntry.
CreateLocalWrite(c) ==
  /\ calls[c].op = "createEntry" /\ calls[c].pc = "lwrite"
  /\ LET k == calls[c] IN
     IF ~quotaFull
       THEN /\ store' = TextValue(LocalCreateMirrorUpdate(k.local, k.newEntry[1]))
            /\ calls' = [calls EXCEPT ![c] = Done(k, k.newEntry)]
       ELSE /\ store' = store
            /\ calls' = [calls EXCEPT ![c] = Raised(k)]
  /\ UNCHANGED <<now, remote, quotaFull, conc, probe, app, http>>
\* The ids a caller may ask to delete.
DeleteIds == Ids(MirrorEntries) \cup Ids(remote) \cup {LocalId(SeedId)}

\* deleteEntry line 69: fetch(API_URL/id, DELETE) is issued.
DeleteEntryCall(c) ==
  /\ CanStart(c)
  /\ \E id \in DeleteIds :
       calls' = Started(c, NewCall("deleteEntry", id, calls[c]))
  /\ UNCHANGED <<now, remote, store, quotaFull, conc, probe, app, http>>
\* deleteEntry lines 69-73: fetch settled; ok reads the mirror and awaits,
\* failure goes to deleteLocalEntry.
DeleteEntryResume(c) ==
  /\ calls[c].op = "deleteEntry" /\ calls[c].pc = "resp"
  /\ LET k == calls[c]
         r == GetLocalEntries(store)
     IN calls' = [calls EXCEPT ![c] =
          IF k.status = "ok" /\ r.ok
            THEN [k EXCEPT !.pc = "write", !.local = r.val]
            ELSE DeleteLocalEntry(k, store)]
  /\ UNCHANGED <<now, remote, store, quotaFull, conc, probe, app, http>>
\* deleteEntry line 74: write the filtered mirror.
DeleteEntryWrite(c) ==
  /\ calls[c].op = "deleteEntry" /\ calls[c].pc = "write"
  /\ LET k == calls[c] IN
     IF ~quotaFull
       THEN /\ store' = TextValue(Stringify(DeleteFilter(k.local, k.id)))
            /\ calls' = [calls EXCEPT ![c] = Done(k, <<>>)]
       ELSE /\ store' = store
            /\ calls' = [calls EXCEPT ![c] = DeleteLocalEntry(k, store)]
  /\ UNCHANGED <<now, remote, quotaFull, conc, probe, app, http>>
\* Mutant: the fallback also takes the entry out of the remote collection, as
\* a replayed delete would.
DeleteLocalWriteReplays(c) ==
  /\ calls[c].op = "deleteEntry" /\ calls[c].pc = "lwrite"
  /\ LET k == calls[c] IN
     /\ store' = TextValue(Stringify(DeleteFilter(k.local, k.id)))
     /\ remote' = ServerDeleteEntry(remote, k.id)
     /\ calls' = [calls EXCEPT ![c] = Done(k, <<>>)]
  /\ UNCHANGED <<now, quotaFull, conc, probe, app, http>>
\* deleteLocalEntry lines 95-96: write the filtered mirror.
DeleteLocalWrite(c) ==
  /\ calls[c].op = "deleteEntry" /\ calls[c].pc = "lwrite"
  /\ LET k == calls[c] IN
     IF ~quotaFull
       THEN /\ store' = TextValue(Stringify(DeleteFilter(k.local, k.id)))
            /\ calls' = [calls EXCEPT ![c] = Done(k, <<>>)]
       ELSE /\ store' = store
            /\ calls' = [calls EXCEPT ![c] = Raised(k)]
  /\ UNCHANGED <<now, remote, quotaFull, conc, probe, app, http>>
\* Mutant: the snapshot is added to what the mirror holds.
ImportEntriesMerge(c) ==
  /\ CanStart(c)
  /\ \E data \in ImportSets :
       LET k == [NewCall("importEntries", NoId, calls[c]) EXCEPT !.data = data] IN
       /\ store' = TextValue(Stringify(MirrorEntries \o data))
       /\ calls' = [calls EXCEPT ![c] = Done(k, <<>>)]
  /\ UNCHANGED <<now, remote, quotaFull, conc, probe, app, http>>
\* importEntries lines 99-101: no await, the body runs when it is called.
ImportEntries(c) ==
  /\ CanStart(c)
  /\ \E data \in ImportSets :
       LET k == [NewCall("importEntries", NoId, calls[c]) EXCEPT !.data = data] IN
       IF ~quotaFull
         THEN /\ store' = TextValue(ImportMirrorUpdate(data))
              /\ calls' = [calls EXCEPT ![c] = Done(k, <<>>)]
         ELSE /\ store' = store
              /\ calls' = [calls EXCEPT ![c] = Raised(k)]
  /\ UNCHANGED <<now, remote, quotaFull, conc, probe, app, http>>
\* What is still known of a call once its caller has its result.
Rest(k) ==
  LET imp == k.pc = "done" /\ k.op = "importEntries"
      acc == k.pc = "done" /\ k.op = "createEntry" /\ k.net = "ok"
      run == k.pc = "done" /\ k.scen \in {1, 2}
  IN [IdleCall EXCEPT
        !.prevOp = IF imp \/ acc THEN k.op ELSE "none",
        !.prevArr = IF imp THEN k.data ELSE IF acc THEN k.ret ELSE <<>>,
        !.scen = IF run THEN k.scen ELSE 0,
        !.scenOrig = IF run THEN k.scenOrig ELSE <<>>]

\* The promise settles: the caller's continuation runs.
Return(c) ==
  /\ Settled(calls[c])
  /\ calls' = [calls EXCEPT ![c] = Rest(@)]
  /\ UNCHANGED <<now, remote, store, quotaFull, conc, probe, app, http>>
\* ----------------------------------------------------------- other clients
\* The remote store is an HTTP service: a client other than this ApiService
\* (a second device, a script) may call it.  http keeps its last exchange.
\* POST /entries (part_001 lines 70-81) with any body: 201 and the new entry.
HttpPost ==
  /\ Len(remote) < MaxLen
  /\ \E data \in PostBodies, t \in Readings :
       /\ now' = t
       /\ remote' = ServerPostEntry(remote, data, t)
       /\ http' = [method |-> "POST", status |-> "201",
                   text |-> StringifyEntry(ServerNewEntry(data, t))]
  /\ UNCHANGED <<store, quotaFull, conc, calls, probe, app>>

\* GET /entries (part_001 lines 66-69): 200 and the collection.
HttpGet ==
  /\ http' = [method |-> "GET", status |-> "200", text |-> ServerGetEntries(remote)]
  /\ UNCHANGED <<now, remote, store, quotaFull, conc, calls, probe, app>>

\* DELETE /entries/:id (part_001 lines 82-88): 200 and { success: true }.
HttpDelete ==
  /\ \E id \in Ids(remote) \cup {LocalId(SeedId)} :
       remote' = ServerDeleteEntry(remote, id)
  /\ http' = [method |-> "DELETE", status |-> "200", text |-> <<>>]
  /\ UNCHANGED <<now, store, quotaFull, conc, calls, probe, app>>

\* ------------------------------------------------------------ mirror faults
\* The origin's storage fills up (photos are kept as data URLs): setItem
\* throws QuotaExceededError from now on.
QuotaExceeded ==
  /\ ~quotaFull
  /\ quotaFull' = TRUE
  /\ UNCHANGED <<now, remote, store, conc, calls, probe, app, http>>
\* Storage is freed again.
QuotaFreed ==
  /\ quotaFull
  /\ quotaFull' = FALSE
  /\ UNCHANGED <<now, remote, store, conc, calls, probe, app, http>>
\* Something else of the origin leaves malformed text under STORAGE_KEY:
\* JSON.parse throws on it (getLocalEntries line 83).
MirrorCorrupted ==
  /\ store.present /\ IsArrayText(store.text)
  /\ store' = TextValue(Garble(store.text))
  /\ UNCHANGED <<now, remote, quotaFull, conc, calls, probe, app, http>>
\* ------------------------------------------------------------------ Prober
\* checkConnection lines 13-15: a new controller, the 1200 ms timer is armed,
\* fetch(/ping) is issued.  The App probes every 30000 ms (part_002 line 42),
\* so a timer the call before left armed has fired by now.
CheckConnectionCall ==
  /\ probe.pc = "idle" /\ ~probe.armed
  /\ probe' = [IdleProbe EXCEPT !.pc = "fetch", !.armed = TRUE, !.pings = 1]
  /\ UNCHANGED <<now, remote, store, quotaFull, conc, calls, app, http>>
\* GET /ping reaches the server, which answers 200 and changes nothing
\* (part_001 lines 60-63).
PingRespond ==
  /\ probe.pc = "fetch"
  /\ probe' = [probe EXCEPT !.pc = "resp", !.status = "ok", !.net = "ok"]
  /\ UNCHANGED <<now, remote, store, quotaFull, conc, calls, app, http>>
\* The health request is answered with a non-success status.
PingError ==
  /\ probe.pc = "fetch"
  /\ probe' = [probe EXCEPT !.pc = "resp", !.status = "notok", !.net = "status"]
  /\ UNCHANGED <<now, remote, store, quotaFull, conc, calls, app, http>>
\* The health request never reaches the remote: fetch rejects.
PingRejects ==
  /\ probe.pc = "fetch"
  /\ probe' = [probe EXCEPT !.pc = "resp", !.status = "rejected", !.net = "unreachable"]
  /\ UNCHANGED <<now, remote, store, quotaFull, conc, calls, app, http>>
\* Mutant: the timer fires but the fetch was not given the controller's signal.
TimeoutFiresNoSignal ==
  /\ probe.armed
  /\ probe' = [probe EXCEPT !.armed = FALSE]
  /\ UNCHANGED <<now, remote, store, quotaFull, conc, calls, app, http>>
\* Mutant: the abort reaches every pending fetch, the Gateway's too.
TimeoutFiresAbortsAll ==
  /\ probe.armed
  /\ probe' = IF probe.pc = "fetch"
                THEN [probe EXCEPT !.armed = FALSE, !.pc = "resp",
                                   !.status = "rejected", !.net = "timeout"]
                ELSE [probe EXCEPT !.armed = FALSE]
  /\ calls' = [c \in Callers |->
                 IF calls[c].pc = "fetch"
                   THEN [calls[c] EXCEPT !.pc = "resp", !.status = "rejected",
                                         !.net = "unreachable"]
                   ELSE calls[c]]
  /\ UNCHANGED <<now, remote, store, quotaFull, conc, app, http>>
\* checkConnection line 14, the timer's callback: controller.abort().  A
\* pending fetch rejects with AbortError; a settled one is not affected.
TimeoutFires ==
  /\ probe.armed
  /\ probe' = IF probe.pc = "fetch"
                THEN [probe EXCEPT !.armed = FALSE, !.pc = "resp",
                                   !.status = "rejected", !.net = "timeout"]
                ELSE [probe EXCEPT !.armed = FALSE]
  /\ UNCHANGED <<now, remote, store, quotaFull, conc, calls, app, http>>
\* Mutant: any answer counts as online, `return true`.
CheckConnectionResumeAnyAnswer ==
  /\ probe.pc = "resp"
  /\ probe' = IF probe.status = "rejected"
                THEN [probe EXCEPT !.pc = "done", !.ret = FALSE]
                ELSE [probe EXCEPT !.pc = "done", !.armed = FALSE, !.ret = TRUE]
  /\ UNCHANGED <<now, remote, store, quotaFull, conc, calls, app, http>>
\* checkConnection lines 15-20: fetch settled.  A rejection goes to the catch,
\* which returns false and leaves the timer armed; an answer clears the timer
\* and returns response.ok.
CheckConnectionResume ==
  /\ probe.pc = "resp"
  /\ probe' = IF probe.status = "rejected"
                THEN [probe EXCEPT !.pc = "done", !.ret = FALSE]
                ELSE [probe EXCEPT !.pc = "done", !.armed = FALSE,
                                   !.ret = (probe.status = "ok")]
  /\ UNCHANGED <<now, remote, store, quotaFull, conc, calls, app, http>>
\* App lines 26-27 and 40-41: setIsBackendOnline(online).
SetIsBackendOnline ==
  /\ probe.pc = "done"
  /\ app' = [app EXCEPT !.isBackendOnline = IF probe.ret THEN "true" ELSE "false"]
  /\ probe' = [IdleProbe EXCEPT !.armed = probe.armed]
  /\ UNCHANGED <<now, remote, store, quotaFull, conc, calls, http>>
\* --------------------------------------------------------------------- App
\* initApp line 26: the first probe (the effect runs once, after the first render).
InitAppProbe ==
  /\ app.isLoading /\ app.isBackendOnline = "null"
  /\ CheckConnectionCall

\* initApp lines 26-29: the probe has returned; setIsBackendOnline(online),
\* then getEntries is called.
InitAppResume(c) ==
  /\ app.isLoading /\ probe.pc = "done"
  /\ CanStart(c)
  /\ app' = [app EXCEPT !.isBackendOnline = IF probe.ret THEN "true" ELSE "false"]
  /\ probe' = [IdleProbe EXCEPT !.armed = probe.armed]
  /\ calls' = Started(c, NewCall("getEntries", NoId, calls[c]))
  /\ UNCHANGED <<now, remote, store, quotaFull, conc, http>>
\* initApp lines 29-35: getEntries settled; setEntries(data) unless it threw,
\* and setIsLoading(false) in both cases.
InitAppLoaded(c) ==
  /\ app.isLoading
  /\ Settled(calls[c]) /\ calls[c].op = "getEntries"
  /\ app' = [app EXCEPT !.entries = IF calls[c].pc = "done" THEN calls[c].ret ELSE @,
                        !.isLoading = FALSE]
  /\ calls' = [calls EXCEPT ![c] = IdleCall]
  /\ UNCHANGED <<now, remote, store, quotaFull, conc, probe, http>>
\* handleMapClick lines 46-50.
HandleMapClick ==
  /\ ~app.isLoading
  /\ \E coords \in Coords :
       app' = [app EXCEPT !.tempMarker = coords, !.isFormOpen = TRUE,
                          !.selectedEntryId = NoSelection]
  /\ UNCHANGED <<now, remote, store, quotaFull, conc, calls, probe, http>>
\* handleEntrySelect lines 52-56, for an entry of the trace list or the map.
HandleEntrySelect ==
  /\ ~app.isLoading
  /\ \E id \in Ids(app.entries) :
       app' = [app EXCEPT !.selectedEntryId = id, !.tempMarker = NoMarker,
                          !.isFormOpen = FALSE]
  /\ UNCHANGED <<now, remote, store, quotaFull, conc, calls, probe, http>>
\* The close button, lines 214-218: rendered when the form is open or the
\* selected entry is in the list.
CloseClick ==
  /\ ~app.isLoading
  /\ app.isFormOpen \/ app.selectedEntryId \in Ids(app.entries)
  /\ app' = [app EXCEPT !.isFormOpen = FALSE, !.selectedEntryId = NoSelection,
                        !.tempMarker = NoMarker]
  /\ UNCHANGED <<now, remote, store, quotaFull, conc, calls, probe, http>>
\* onCancel of the form, line 227: rendered when the form is open.
CancelClick ==
  /\ ~app.isLoading /\ app.isFormOpen
  /\ app' = [app EXCEPT !.isFormOpen = FALSE, !.tempMarker = NoMarker]
  /\ UNCHANGED <<now, remote, store, quotaFull, conc, calls, probe, http>>
\* EntryForm.handleSubmit lines 68-81 with a photo: the form is submitted and
\* awaits the file reader before it calls the onSubmit it closed over.
FormSubmitClick ==
  /\ ~app.isLoading /\ app.isFormOpen
  /\ app.submitMarker = "none"
  /\ app' = [app EXCEPT !.submitMarker = app.tempMarker]
  /\ UNCHANGED <<now, remote, store, quotaFull, conc, calls, probe, http>>
\* handleFormSubmit lines 58-71, the closure whose tempMarker is marker:
\* return when that is null, else setIsSyncing(true) and createEntry.
HandleFormSubmitCall(c, marker) ==
  /\ IF marker = NoMarker
       THEN /\ app' = [app EXCEPT !.submitMarker = "none"]
            /\ calls' = calls
       ELSE /\ CanStart(c)
            /\ Len(remote) < MaxLen /\ Len(MirrorEntries) < MaxLen
            /\ Len(app.entries) < MaxLen
            /\ \E p \in Payloads :
                 calls' = Started(c, [NewCall("createEntry", NoId, calls[c]) EXCEPT !.entry = p])
            /\ app' = [app EXCEPT !.submitMarker = "none", !.isSyncing = TRUE]
  /\ UNCHANGED <<now, remote, store, quotaFull, conc, probe, http>>
\* EntryForm.handleSubmit lines 68-83 without a photo: the form is submitted
\* and onSubmit is called in the same task.
FormSubmit(c) ==
  /\ ~app.isLoading /\ app.isFormOpen
  /\ HandleFormSubmitCall(c, app.tempMarker)

\* EntryForm.handleSubmit line 83 with a photo: the file reader is done and
\* the onSubmit closed over at the click is called.
FormSubmitLate(c) ==
  /\ app.submitMarker # "none"
  /\ HandleFormSubmitCall(c, app.submitMarker)

\* Mutant: the saved entry is put first, [savedEntry, ...prev].
HandleFormSubmitResumePrepend(c) ==
  /\ Settled(calls[c]) /\ calls[c].op = "createEntry"
  /\ app' = IF calls[c].pc = "done"
              THEN [app EXCEPT !.entries = calls[c].ret \o @, !.isFormOpen = FALSE,
                               !.tempMarker = NoMarker, !.isSyncing = FALSE]
              ELSE [app EXCEPT !.isSyncing = FALSE]
  /\ calls' = [calls EXCEPT ![c] = IdleCall]
  /\ UNCHANGED <<now, remote, store, quotaFull, conc, probe, http>>
\* Mutant: the completion closes the form and leaves the marker,
\* setTempMarker(null) is missing.
HandleFormSubmitResumeKeepsMarker(c) ==
  /\ Settled(calls[c]) /\ calls[c].op = "createEntry"
  /\ app' = IF calls[c].pc = "done"
              THEN [app EXCEPT !.entries = @ \o calls[c].ret, !.isFormOpen = FALSE,
                               !.isSyncing = FALSE]
              ELSE [app EXCEPT !.isSyncing = FALSE]
  /\ calls' = [calls EXCEPT ![c] = IdleCall]
  /\ UNCHANGED <<now, remote, store, quotaFull, conc, probe, http>>
\* handleFormSubmit lines 71-79: createEntry settled; append the saved entry,
\* close the form and drop the marker, or (it threw) alert; setIsSyncing(false).
HandleFormSubmitResume(c) ==
  /\ Settled(calls[c]) /\ calls[c].op = "createEntry"
  /\ app' = IF calls[c].pc = "done"
              THEN [app EXCEPT !.entries = @ \o calls[c].ret, !.isFormOpen = FALSE,
                               !.tempMarker = NoMarker, !.isSyncing = FALSE]
              ELSE [app EXCEPT !.isSyncing = FALSE]
  /\ calls' = [calls EXCEPT ![c] = IdleCall]
  /\ UNCHANGED <<now, remote, store, quotaFull, conc, probe, http>>
\* handleDeleteEntry lines 82-88, for an entry of the trace list, confirmed:
\* setIsSyncing(true) and deleteEntry(id).
HandleDeleteEntryCall(c) ==
  /\ ~app.isLoading
  /\ CanStart(c)
  /\ \E id \in Ids(app.entries) :
       calls' = Started(c, NewCall("deleteEntry", id, calls[c]))
  /\ app' = [app EXCEPT !.isSyncing = TRUE, !.deleteSelected = app.selectedEntryId]
  /\ UNCHANGED <<now, remote, store, quotaFull, conc, probe, http>>
\* handleDeleteEntry lines 88-95: deleteEntry settled; filter the entry out
\* and unselect it if it was selected when the button was clicked.
HandleDeleteEntryResume(c) ==
  /\ Settled(calls[c]) /\ calls[c].op = "deleteEntry"
  /\ app' = IF calls[c].pc = "done"
              THEN [app EXCEPT !.entries = DeleteFilter(@, calls[c].id),
                               !.selectedEntryId =
                                  IF app.deleteSelected = calls[c].id THEN NoSelection ELSE @,
                               !.isSyncing = FALSE, !.deleteSelected = NoSelection]
              ELSE [app EXCEPT !.isSyncing = FALSE, !.deleteSelected = NoSelection]
  /\ calls' = [calls EXCEPT ![c] = IdleCall]
  /\ UNCHANGED <<now, remote, store, quotaFull, conc, probe, http>>
\* handleImport lines 127-131: the file is read and parses to an array;
\* importEntries runs (it has no await) and the handler awaits its promise.
HandleImportCall(c) ==
  /\ ~app.isLoading
  /\ CanStart(c)
  /\ \E data \in ImportSets :
       LET k == [NewCall("importEntries", NoId, calls[c]) EXCEPT !.data = data] IN
       IF ~quotaFull
         THEN /\ store' = TextValue(ImportMirrorUpdate(data))
              /\ calls' = Started(c, Done(k, <<>>))
         ELSE /\ store' = store
              /\ calls' = Started(c, Raised(k))
  /\ UNCHANGED <<now, remote, quotaFull, conc, probe, app, http>>
\* handleImport lines 131-137: setEntries(importedData), or the alert of the catch.
HandleImportResume(c) ==
  /\ Settled(calls[c]) /\ calls[c].op = "importEntries"
  /\ app' = [app EXCEPT !.entries = IF calls[c].pc = "done" THEN calls[c].data ELSE @]
  /\ calls' = [calls EXCEPT ![c] = IdleCall]
  /\ UNCHANGED <<now, remote, store, quotaFull, conc, probe, http>>
\* ----------------------------------------------------------- specification
Next ==
  \E c \in Callers :
       \/ ServerRespond(c)
       \/ ServerError(c)
       \/ FetchRejects(c)
       \/ GetEntriesCall(c)
       \/ GetEntriesResume(c)
       \/ GetEntriesJson(c)
       \/ CreateEntryCall(c)
       \/ CreateEntryResume(c)
       \/ CreateEntryJson(c)
       \/ CreateEntryWrite(c)
       \/ CreateLocalWrite(c)
       \/ DeleteEntryCall(c)
       \/ DeleteEntryResume(c)
       \/ DeleteEntryWrite(c)
       \/ DeleteLocalWrite(c)
       \/ ImportEntries(c)
       \/ Return(c)

\* One Gateway call at a time, over a mirror store that keeps its contract.
Spec == Init /\ [][Next]_vars

\* A caller that lists, creates and deletes and never imports a snapshot.
NextCrud ==
  \E c \in Callers :
       \/ ServerRespond(c)
       \/ ServerError(c)
       \/ FetchRejects(c)
       \/ GetEntriesCall(c)
       \/ GetEntriesResume(c)
       \/ GetEntriesJson(c)
       \/ CreateEntryCall(c)
       \/ CreateEntryResume(c)
       \/ CreateEntryJson(c)
       \/ CreateEntryWrite(c)
       \/ CreateLocalWrite(c)
       \/ DeleteEntryCall(c)
       \/ DeleteEntryResume(c)
       \/ DeleteEntryWrite(c)
       \/ DeleteLocalWrite(c)
       \/ Return(c)

SpecCrud == Init /\ [][NextCrud]_vars

\* Callers whose create calls overlap (a second call may start while the
\* first awaits) with the remote unreachable throughout.
InitOverlap ==
  /\ now = SeedId + 1
  /\ remote = <<SeedEntry>>
  /\ store = AbsentValue
  /\ quotaFull = FALSE
  /\ conc = TRUE
  /\ calls = [c \in Callers |-> IdleCall]
  /\ probe = IdleProbe
  /\ app = InitApp
  /\ http = NoExchange

NextOverlap ==
  \E c \in Callers :
       \/ FetchRejects(c)
       \/ CreateEntryCall(c)
       \/ CreateEntryResume(c)
       \/ CreateLocalWrite(c)
       \/ Return(c)

SpecOverlap == InitOverlap /\ [][NextOverlap]_vars

\* Callers whose list and create calls overlap, each request reaching the
\* remote store, which answers it.
NextRace ==
  \/ GetEntriesCall("c1")
  \/ CreateEntryCall("c2")
  \/ \E c \in Callers :
       \/ ServerRespond(c)
       \/ GetEntriesResume(c)
       \/ GetEntriesJson(c)
       \/ CreateEntryResume(c)
       \/ CreateEntryJson(c)
       \/ CreateEntryWrite(c)
       \/ CreateLocalWrite(c)
       \/ Return(c)

SpecRace == InitOverlap /\ [][NextRace]_vars

\* The App: the first probe, which the remote answers, and the initial load;
\* then the user's map clicks, form submits, deletes and imports, one Gateway
\* call at a time, each request answered by the remote or lost.
NextApp ==
  \/ InitAppProbe
  \/ PingRespond
  \/ CheckConnectionResume
  \/ HandleMapClick
  \/ \E c \in Callers :
       \/ InitAppResume(c)
       \/ InitAppLoaded(c)
       \/ FormSubmit(c)
       \/ HandleFormSubmitResume(c)
       \/ HandleDeleteEntryCall(c)
       \/ HandleDeleteEntryResume(c)
       \/ HandleImportCall(c)
       \/ HandleImportResume(c)
       \/ ServerRespond(c)
       \/ FetchRejects(c)
       \/ GetEntriesResume(c)
       \/ GetEntriesJson(c)
       \/ CreateEntryResume(c)
       \/ CreateEntryJson(c)
       \/ CreateEntryWrite(c)
       \/ CreateLocalWrite(c)
       \/ DeleteEntryResume(c)
       \/ DeleteEntryWrite(c)
       \/ DeleteLocalWrite(c)

SpecApp == Init /\ [][NextApp]_vars

\* The App's form with the remote out of reach: the first probe times out and
\* the initial load falls back; then map clicks, entry selections, closes,
\* cancels and form submits in any order, a submit being called at once or
\* after its photo is read, and completing while the user goes on; submits
\* may overlap.
NextForm ==
  \/ InitAppProbe
  \/ TimeoutFires
  \/ CheckConnectionResume
  \/ HandleMapClick
  \/ HandleEntrySelect
  \/ CloseClick
  \/ CancelClick
  \/ FormSubmitClick
  \/ \E c \in Callers :
       \/ InitAppResume(c)
       \/ InitAppLoaded(c)
       \/ FormSubmit(c)
       \/ FormSubmitLate(c)
       \/ HandleFormSubmitResume(c)
       \/ FetchRejects(c)
       \/ GetEntriesResume(c)
       \/ CreateEntryResume(c)
       \/ CreateLocalWrite(c)

SpecForm == InitOverlap /\ [][NextForm]_vars

\* A caller that lists and creates, one call at a time, over a mirror store
\* whose writes may fail and whose content may be malformed.
NextFaults ==
  \/ QuotaExceeded
  \/ QuotaFreed
  \/ MirrorCorrupted
  \/ \E c \in Callers :
       \/ ServerRespond(c)
       \/ ServerError(c)
       \/ FetchRejects(c)
       \/ GetEntriesCall(c)
       \/ GetEntriesResume(c)
       \/ GetEntriesJson(c)
       \/ CreateEntryCall(c)
       \/ CreateEntryResume(c)
       \/ CreateEntryJson(c)
       \/ CreateEntryWrite(c)
       \/ CreateLocalWrite(c)
       \/ Return(c)

SpecFaults == Init /\ [][NextFaults]_vars

\* The remote store by itself, driven by any HTTP client.
NextServer == HttpPost \/ HttpGet \/ HttpDelete

SpecServer == Init /\ [][NextServer]_vars

\* The App's probes (at startup and every 30 s) beside a caller that lists
\* and deletes, one call at a time.
NextProber ==
  \/ CheckConnectionCall
  \/ PingRespond
  \/ PingError
  \/ PingRejects
  \/ TimeoutFires
  \/ CheckConnectionResume
  \/ SetIsBackendOnline
  \/ \E c \in Callers :
       \/ ServerRespond(c)
       \/ ServerError(c)
       \/ FetchRejects(c)
       \/ GetEntriesCall(c)
       \/ GetEntriesResume(c)
       \/ GetEntriesJson(c)
       \/ DeleteEntryCall(c)
       \/ DeleteEntryResume(c)
       \/ DeleteEntryWrite(c)
       \/ DeleteLocalWrite(c)
       \/ Return(c)

\* A timer that is armed fires, and a continuation whose promise has settled
\* runs: the event loop starves neither.  Nothing makes the remote answer.
FairProber == WF_vars(TimeoutFires) /\ WF_vars(CheckConnectionResume)

SpecProber == Init /\ [][NextProber]_vars /\ FairProber

\* The App's probes beside a caller that lists and creates, one call at a time.
NextObserver ==
  \/ CheckConnectionCall
  \/ PingRespond
  \/ PingError
  \/ PingRejects
  \/ TimeoutFires
  \/ CheckConnectionResume
  \/ SetIsBackendOnline
  \/ \E c \in Callers :
       \/ ServerRespond(c)
       \/ ServerError(c)
       \/ FetchRejects(c)
       \/ GetEntriesCall(c)
       \/ GetEntriesResume(c)
       \/ GetEntriesJson(c)
       \/ CreateEntryCall(c)
       \/ CreateEntryResume(c)
       \/ CreateEntryJson(c)
       \/ CreateEntryWrite(c)
       \/ CreateLocalWrite(c)
       \/ Return(c)

SpecObserver == Init /\ [][NextObserver]_vars

\* ------------------------------------------------------------------ claims
\* The entries a stored value lists, read off the text token by token.
Held(st) ==
  IF st.present /\ Len(st.text) >= 2
    THEN [i \in 1..(Len(st.text) - 2) |->
            [id |-> [pre |-> st.text[i + 1][1], num |-> st.text[i + 1][2]],
             timestamp |-> st.text[i + 1][3], note |-> st.text[i + 1][4]]]
    ELSE <<>>

Range(s) == {s[i] : i \in 1..Len(s)}

\* s with every entry of the given id taken out, the others in their order.
RECURSIVE Without(_, _)
Without(s, id) ==
  IF s = <<>> THEN <<>>
  ELSE IF Head(s).id = id THEN Without(Tail(s), id)
  ELSE <<Head(s)>> \o Without(Tail(s), id)

\* This step is the one in which caller c's call of op returns or throws.
Finishes(c, op) == ~Settled(calls[c]) /\ Settled(calls'[c]) /\ calls'[c].op = op

\* This step leaves caller c's call of op under way.
Underway(c, op) == calls'[c].op = op /\ InFlight(calls'[c]) /\ calls'[c] # calls[c]

\* C1: a list the remote answers successfully with collection R returns
\* exactly R, and when it returns the mirror holds exactly R, whatever the
\* mirror held before.
C1_ListReturnsRemote ==
  [][\A c \in Callers :
       (Finishes(c, "getEntries") /\ calls'[c].net = "ok") =>
         /\ calls'[c].pc = "done"
         /\ calls'[c].served = remote
         /\ calls'[c].ret = remote
         /\ store'.present
         /\ Held(store') = remote]_vars

\* C1 witness: a list answered by the remote has returned right after an
\* import of a different collection that held a local-origin entry.
C1_Witness ==
  \E c \in Callers :
    /\ calls[c].pc = "done" /\ calls[c].op = "getEntries" /\ calls[c].net = "ok"
    /\ calls[c].prevOp = "importEntries"
    /\ \E e \in Range(calls[c].prevArr) : IsLocalId(e.id)
    /\ calls[c].ret # calls[c].prevArr
    /\ calls[c].ret # <<>>

\* C2: a list whose remote fetch fails returns exactly the current contents
\* of the mirror and leaves the mirror unchanged; with the mirror key absent
\* it returns the empty sequence.
C2_ListFallsBack ==
  [][\A c \in Callers :
       /\ Underway(c, "getEntries") => store' = store
       /\ (Finishes(c, "getEntries") /\ calls'[c].net # "ok") =>
            /\ calls'[c].pc = "done"
            /\ calls'[c].ret = Held(store)
            /\ store' = store
            /\ ~store.present => calls'[c].ret = <<>>]_vars

\* C2 witness: a list found the remote unreachable and returned a non-empty mirror.
C2_Witness ==
  \E c \in Callers :
    /\ calls[c].pc = "done" /\ calls[c].op = "getEntries"
    /\ calls[c].net = "unreachable"
    /\ calls[c].ret # <<>>

\* C3: a create the remote accepts returns the remote-issued entry with the
\* remote-assigned id and leaves the mirror equal to the previous mirror with
\* that entry appended at the end; a list made right after it that finds the
\* remote unreachable returns a sequence containing that entry.
C3_CreateAccepted ==
  [][\A c \in Callers :
       /\ Underway(c, "createEntry") => store' = store
       /\ (Finishes(c, "createEntry") /\ calls'[c].net = "ok") =>
            /\ calls'[c].pc = "done"
            /\ Len(calls'[c].ret) = 1
            /\ calls'[c].ret = calls'[c].served
            /\ remote # <<>> /\ calls'[c].ret[1] = remote[Len(remote)]
            /\ ~IsLocalId(calls'[c].ret[1].id)
            /\ Held(store') = Append(Held(store), calls'[c].ret[1])
       /\ (Finishes(c, "getEntries") /\ calls'[c].net # "ok"
             /\ calls'[c].prevOp = "createEntry") =>
            /\ calls'[c].pc = "done"
            /\ calls'[c].prevArr[1] \in Range(calls'[c].ret)]_vars

\* C3 witness: the list made right after an accepted create found the remote
\* unreachable and returned the earlier mirror and the created entry.
C3_Witness ==
  \E c \in Callers :
    /\ calls[c].pc = "done" /\ calls[c].op = "getEntries"
    /\ calls[c].net = "unreachable"
    /\ calls[c].prevOp = "createEntry"
    /\ Len(calls[c].ret) = 2
    /\ calls[c].ret[2] = calls[c].prevArr[1]

\* C4: a create whose remote attempt fails returns an entry whose id starts
\* with "local-" and whose other fields equal the input, and leaves the mirror
\* equal to the previous mirror with exactly that entry appended at the end.
C4_CreateFallsBack ==
  [][\A c \in Callers :
       /\ Underway(c, "createEntry") => store' = store
       /\ (Finishes(c, "createEntry") /\ calls'[c].net # "ok") =>
            /\ calls'[c].pc = "done"
            /\ Len(calls'[c].ret) = 1
            /\ calls'[c].ret[1].id.pre = "local-"
            /\ calls'[c].ret[1].timestamp = calls'[c].entry.timestamp
            /\ calls'[c].ret[1].note = calls'[c].entry.note
            /\ Held(store') = Append(Held(store), calls'[c].ret[1])]_vars

\* C4 witness: a create found the remote unreachable and appended its
\* local-origin entry to a non-empty mirror.
C4_Witness ==
  \E c \in Callers :
    /\ calls[c].pc = "done" /\ calls[c].op = "createEntry"
    /\ calls[c].net = "unreachable"
    /\ Len(Held(store)) = 2
    /\ Held(store)[2] = calls[c].ret[1]
    /\ IsLocalId(calls[c].ret[1].id)

\* C5: a delete of an id the mirror holds leaves the mirror equal to the
\* previous mirror with the entries of that id removed and every other entry
\* kept in its order, whether the remote delete succeeds or fails.
C5_DeletePresent ==
  [][\A c \in Callers :
       /\ Underway(c, "deleteEntry") => store' = store
       /\ (Finishes(c, "deleteEntry") /\ calls'[c].id \in Ids(Held(store))) =>
            /\ calls'[c].pc = "done"
            /\ Held(store') = Without(Held(store), calls'[c].id)
            /\ calls'[c].id \notin Ids(Held(store'))]_vars

\* C5 witness: a delete that found the remote unreachable has removed its
\* entry from the mirror and kept another one.
C5_Witness ==
  \E c \in Callers :
    /\ calls[c].pc = "done" /\ calls[c].op = "deleteEntry"
    /\ calls[c].net = "unreachable"
    /\ calls[c].id = RemoteId(SeedId)
    /\ Len(Held(store)) = 1
    /\ IsLocalId(Held(store)[1].id)

\* C6: a delete of an id no mirror entry has leaves the sequence of mirror
\* entries unchanged and returns without raising, whatever the remote does.
C6_DeleteAbsent ==
  [][\A c \in Callers :
       (Finishes(c, "deleteEntry") /\ calls'[c].id \notin Ids(Held(store))) =>
         /\ calls'[c].pc = "done"
         /\ Held(store') = Held(store)]_vars

\* C6 witness: a delete of an id the mirror does not hold has returned and
\* the mirror holds two entries.
C6_Witness ==
  \E c \in Callers :
    /\ calls[c].pc = "done" /\ calls[c].op = "deleteEntry"
    /\ calls[c].id = LocalId(SeedId)
    /\ Len(Held(store)) = 2

\* C7: import sets the mirror to exactly the given collection whatever it
\* held before, issues no request to the remote store and leaves the remote
\* collection unchanged.
C7_ImportOverwrites ==
  [][\A c \in Callers :
       (calls'[c].op = "importEntries" /\ calls'[c] # calls[c]) =>
         /\ calls[c].pc = "idle"
         /\ calls'[c].pc = "done"
         /\ store'.present
         /\ Held(store') = calls'[c].data
         /\ remote' = remote]_vars

\* C7 witness: an import of a non-empty collection has returned while the
\* remote collection is another one.
C7_Witness ==
  \E c \in Callers :
    /\ calls[c].pc = "done" /\ calls[c].op = "importEntries"
    /\ Len(calls[c].data) = 2
    /\ Held(store) = calls[c].data
    /\ remote # calls[c].data

C9_ImportListRoundTrip ==
  \A c \in Callers :
    (calls[c].pc = "done" /\ calls[c].op = "getEntries" /\ calls[c].net # "ok"
       /\ calls[c].prevOp = "importEntries") =>
      calls[c].ret = calls[c].prevArr

\* C9 witness: the list after an import of two different entries has
\* returned with the remote unreachable.
C9_Witness ==
  \E c \in Callers :
    /\ calls[c].pc = "done" /\ calls[c].op = "getEntries"
    /\ calls[c].net = "unreachable"
    /\ calls[c].prevOp = "importEntries"
    /\ Len(calls[c].prevArr) = 2
    /\ calls[c].prevArr[1] # calls[c].prevArr[2]

\* C10: from remote = mirror = [entry "1"], with the remote unreachable,
\* delete("1") empties the mirror and a create then leaves exactly one
\* local-id entry in it; the next list, answered by the remote, returns the
\* remote's original [entry "1"] and sets the mirror to it: the local entry is
\* in neither of them and never reached the remote.
C10_OfflineReconnect ==
  \A c \in Callers :
    calls[c].pc = "done" =>
      /\ calls[c].scen = 1 =>
           /\ Held(store) = <<>>
           /\ remote = calls[c].scenOrig
      /\ calls[c].scen = 2 =>
           /\ Len(Held(store)) = 1
           /\ IsLocalId(Held(store)[1].id)
           /\ calls[c].ret = Held(store)
           /\ remote = calls[c].scenOrig
      /\ calls[c].scen = 3 =>
           /\ calls[c].ret = calls[c].scenOrig
           /\ Held(store) = calls[c].scenOrig
           /\ remote = calls[c].scenOrig
           /\ \A e \in Range(calls[c].ret) \cup Range(remote) : ~IsLocalId(e.id)

\* C10 witness: the scenario's last list has returned.
C10_Witness ==
  \E c \in Callers :
    /\ calls[c].pc = "done" /\ calls[c].op = "getEntries" /\ calls[c].scen = 3
    /\ calls[c].scenOrig = <<SeedEntry>>

\* C11: checkConnection returns true exactly when the health request was
\* answered with a success status before the timer fired; it returns false
\* after a transport error, a non-success status and a timeout; and it always
\* ends by returning, never by throwing.
C11_ProbeResult ==
  /\ probe.pc \in {"idle", "fetch", "resp", "done"}
  /\ probe.pc = "done" =>
       /\ probe.net \in {"ok", "status", "unreachable", "timeout"}
       /\ probe.ret = (probe.net = "ok")
       /\ probe.net \in {"status", "unreachable", "timeout"} => probe.ret = FALSE

\* C11 witness: a probe answered with a non-success status has returned false.
C11_Witness == probe.pc = "done" /\ probe.net = "status" /\ probe.ret = FALSE

\* C12: a checkConnection call that has issued its request always completes;
\* while the request is pending the timer stays armed, and when the timer
\* fires first the request is cancelled and the call returns false.
C12_ProbeCompletes ==
  /\ [](probe.pc = "fetch" => probe.armed)
  /\ [](probe.pc \in {"resp", "done"} /\ probe.net = "timeout" =>
          /\ probe.status = "rejected"
          /\ ~probe.armed
          /\ probe.pc = "done" => probe.ret = FALSE)
  /\ (probe.pc = "fetch") ~> (probe.pc = "done")

\* C12 witness: the remote never answered, the timer fired, the call returned false.
C12_Witness == probe.pc = "done" /\ probe.net = "timeout" /\ probe.ret = FALSE /\ ~probe.armed

\* No two entries of s have the same id.
NoDup(s) == \A i, j \in 1..Len(s) : s[i].id = s[j].id => i = j

\* C13: in every state reached by list, create and delete calls, no two
\* entries of the mirror share an id and no two entries of the remote
\* collection share an id.
C13_IdsUnique == NoDup(Held(store)) /\ NoDup(remote)

\* C14: a list the remote answers leaves the mirror equal to the remote
\* collection, and a list, create or delete that starts with the mirror equal
\* to the remote collection and is answered by the remote leaves them equal
\* again: the same entries in the same order.  So they stay equal after each
\* call of any sequence of answered calls that follows an answered list.
C14_MirrorReplica ==
  \A c \in Callers :
    (/\ calls[c].pc = "done" /\ calls[c].net = "ok"
     /\ calls[c].op \in {"getEntries", "createEntry", "deleteEntry"}
     /\ calls[c].repl \/ calls[c].op = "getEntries") =>
      /\ store.present
      /\ Held(store) = remote

\* C14 witness: a create that started with the mirror equal to a non-empty
\* remote collection was accepted and has returned.
C14_Witness ==
  \E c \in Callers :
    /\ calls[c].pc = "done" /\ calls[c].op = "createEntry" /\ calls[c].net = "ok"
    /\ calls[c].repl
    /\ Len(remote) = 2 /\ Len(Held(store)) = 2

\* C15: the mirror update of create is read-whole, then write-whole: the write
\* stores the entries the call read earlier plus its own entry, whatever the
\* mirror holds by then, so an entry another create appended in between is
\* gone after the write; two overlapping creates that find the remote
\* unreachable can both return an entry and leave only one in the mirror.
C15_LostUpdate ==
  [][\A c \in Callers :
       (Finishes(c, "createEntry") /\ calls'[c].pc = "done") =>
         /\ Held(store') = Append(calls[c].local, calls'[c].ret[1])
         /\ \A e \in Range(Held(store)) \ Range(calls[c].local) :
              e # calls'[c].ret[1] => e \notin Range(Held(store'))]_vars

\* C15 witness: two overlapping creates found the remote unreachable, both
\* returned an entry, and the mirror holds one of the two and not the other.
C15_Witness ==
  \E c, d \in Callers :
    /\ c # d
    /\ calls[c].pc = "done" /\ calls[c].op = "createEntry" /\ calls[c].net = "unreachable"
    /\ calls[d].pc = "done" /\ calls[d].op = "createEntry" /\ calls[d].net = "unreachable"
    /\ calls[c].ret[1].id # calls[d].ret[1].id
    /\ Held(store) = <<calls[d].ret[1]>>

\* C16: an entry leaves the remote collection only in the step in which the
\* server handles the request of a delete call for that very id; a delete that
\* found the remote unreachable or refusing changes nothing there, and no
\* later call sends the delete in its place.  So after delete("1") with the
\* remote unreachable the remote still holds entry "1", and the list made
\* next, when the remote answers it, returns the entry and puts it back into
\* the mirror.
C16_DeleteNotReplayed ==
  [][\A c \in Callers :
       /\ \A id \in Ids(remote) \ Ids(remote') :
            \E d \in Callers :
              /\ calls[d].op = "deleteEntry" /\ calls[d].id = id
              /\ calls[d].pc = "fetch" /\ calls'[d].pc = "resp" /\ calls'[d].net = "ok"
       /\ (calls'[c].op = "deleteEntry" /\ calls'[c].net \in {"unreachable", "status"}
             /\ calls'[c] # calls[c]) => remote' = remote
       /\ (Finishes(c, "getEntries") /\ calls'[c].scen = 4) =>
            /\ calls'[c].scenOrig # <<>>
            /\ Held(store) = <<>>
            /\ remote' = calls'[c].scenOrig
            /\ calls'[c].ret = calls'[c].scenOrig
            /\ Held(store') = calls'[c].scenOrig]_vars

\* C16 witness: after a delete of entry "1" that found the remote unreachable,
\* the next list was answered and has returned the entry, which the mirror and
\* the remote collection hold.
C16_Witness ==
  \E c \in Callers :
    /\ calls[c].pc = "done" /\ calls[c].op = "getEntries" /\ calls[c].scen = 4
    /\ calls[c].scenOrig = <<SeedEntry>>
    /\ Held(store) = <<SeedEntry>> /\ remote = <<SeedEntry>>

\* C17: once the remote store has accepted a create, no step of the call
\* changes the remote collection again: when the mirror read or write fails
\* the entry stays there as its last entry and no delete is sent for it.  The
\* call then throws and leaves the mirror as it was, or (the write of the
\* fallback succeeding) stores what it read plus a local-id copy: the mirror is
\* not given the remote-issued entry.  A later list the remote answers, whose
\* mirror write succeeds, makes the mirror equal to the remote collection.
C17_PartialCreate ==
  [][\A c \in Callers :
       /\ (calls[c].op = "createEntry" /\ calls[c].net = "ok" /\ calls'[c] # calls[c]) =>
            remote' = remote
       /\ (Finishes(c, "createEntry") /\ calls'[c].net = "ok"
             /\ calls'[c].ret # calls'[c].served) =>
            /\ remote' # <<>> /\ remote'[Len(remote')] = calls'[c].served[1]
            /\ calls'[c].pc = "raised" => store' = store
            /\ calls'[c].pc = "done" =>
                 /\ IsLocalId(calls'[c].ret[1].id)
                 /\ Held(store') = Append(calls[c].local, calls'[c].ret[1])
       /\ (Finishes(c, "getEntries") /\ calls'[c].net = "ok" /\ ~quotaFull) =>
            /\ calls'[c].pc = "done"
            /\ store'.present /\ Held(store') = remote']_vars

\* C17 witness: the remote accepted a create whose mirror write then failed;
\* the call has thrown, the remote collection ends with the new entry and the
\* mirror, which is well formed, does not hold it.
C17_Witness ==
  \E c \in Callers :
    /\ calls[c].pc = "raised" /\ calls[c].op = "createEntry" /\ calls[c].net = "ok"
    /\ quotaFull
    /\ remote[Len(remote)] = calls[c].served[1]
    /\ GetLocalEntries(store).ok
    /\ calls[c].served[1] \notin Range(Held(store))

C20_RemoteCreate ==
  [][Len(remote') > Len(remote) =>
       /\ Len(remote') = Len(remote) + 1
       /\ SubSeq(remote', 1, Len(remote)) = remote
       /\ http'.method = "POST" /\ http'.status = "201"
       /\ http'.text = StringifyEntry(remote'[Len(remote')])
       /\ remote'[Len(remote')].id = RemoteId(now')]_vars

\* C21: a list the remote answers, and whose mirror write goes through,
\* returns the remote collection and leaves under the mirror key the text of
\* an array equal to it, whatever was there before: nothing, a text that does
\* not parse, or another collection.
C21_ListIgnoresMirror ==
  [][\A c \in Callers :
       (Finishes(c, "getEntries") /\ calls'[c].net = "ok" /\ ~quotaFull) =>
         /\ calls'[c].pc = "done"
         /\ calls'[c].ret = remote
         /\ store'.present /\ IsArrayText(store'.text)
         /\ GetLocalEntries(store') = Returned(remote)
         /\ store' = TextValue(Stringify(calls'[c].served))]_vars

\* C21 witness: a list that found malformed text under the mirror key when it
\* was called has been answered and has returned; the mirror is the remote
\* collection.
C21_Witness ==
  \E c \in Callers :
    /\ calls[c].pc = "done" /\ calls[c].op = "getEntries" /\ calls[c].net = "ok"
    /\ calls[c].was = "malformed"
    /\ remote # <<>> /\ calls[c].ret = remote
    /\ GetLocalEntries(store) = Returned(remote)

\* C21 witness of the other case: the mirror key was absent at the call.
C21_WitnessAbsent ==
  \E c \in Callers :
    /\ calls[c].pc = "done" /\ calls[c].op = "getEntries" /\ calls[c].net = "ok"
    /\ calls[c].was = "absent"
    /\ GetLocalEntries(store) = Returned(remote)

\* C22: a create returns an entry whose id starts with "local-" only when the
\* remote store did not store the entry; when the remote store has stored it,
\* the call returns the remote-issued entry and the entry it adds to the
\* mirror has no local id.
C22_MarkerSound ==
  [][\A c \in Callers :
       (Finishes(c, "createEntry") /\ calls'[c].pc = "done") =>
         /\ IsLocalId(calls'[c].ret[1].id) => calls'[c].served = <<>>
         /\ calls'[c].served # <<>> =>
              /\ calls'[c].ret = calls'[c].served
              /\ \A e \in Range(Held(store')) \ Range(Held(store)) : ~IsLocalId(e.id)]_vars

\* C23: when a list and a create overlap in time and the remote answers both,
\* then once both calls have returned the mirror contains the created entry.
C23_OverlapKeepsCreate ==
  \A l, k \in Callers :
    (/\ calls[l].pc = "done" /\ calls[l].op = "getEntries" /\ calls[l].net = "ok"
     /\ calls[k].pc = "done" /\ calls[k].op = "createEntry" /\ calls[k].net = "ok"
     /\ calls[l].ovl /\ calls[k].ovl) =>
      calls[k].ret[1] \in Range(Held(store))

\* Caller l's list and caller k's create overlapped and the remote answered
\* both (evaluated on the calls as the step leaves them).
BothAnswered(l, k) ==
  /\ calls'[l].op = "getEntries" /\ calls'[l].net = "ok" /\ calls'[l].ovl
  /\ calls'[k].op = "createEntry" /\ calls'[k].net = "ok" /\ calls'[k].ovl
  /\ calls'[l].pc = "done" /\ calls'[k].pc = "done"

\* C23 as amended: of an overlapping list and create that the remote both
\* answers, the call that writes the mirror last decides it.  When the list
\* returns last the mirror is exactly the collection the list was served, so
\* it contains the created entry only if the remote served the list after it
\* stored the entry; when the create returns last the mirror is what the
\* create read plus the created entry.  The remote collection holds the
\* created entry in both cases.
C23_LastWriterWins ==
  [][\A l, k \in Callers :
       /\ (Finishes(l, "getEntries") /\ BothAnswered(l, k)) =>
            /\ Held(store') = calls'[l].served
            /\ calls'[k].ret[1] \in Range(Held(store')) <=>
                 calls'[k].ret[1] \in Range(calls'[l].served)
            /\ calls'[k].ret[1] \in Range(remote')
       /\ (Finishes(k, "createEntry") /\ BothAnswered(l, k)) =>
            /\ Held(store') = Append(calls[k].local, calls'[k].ret[1])
            /\ calls'[k].ret[1] \in Range(remote')]_vars

\* C23 witness: a list and a create overlapped, the remote answered both, both
\* have returned, and the mirror is the list's collection, without the entry
\* the create returned and the remote collection holds.
C23_Witness ==
  \E l, k \in Callers :
    /\ calls[l].pc = "done" /\ calls[l].op = "getEntries" /\ calls[l].net = "ok"
    /\ calls[k].pc = "done" /\ calls[k].op = "createEntry" /\ calls[k].net = "ok"
    /\ calls[l].ovl /\ calls[k].ovl
    /\ Held(store) = calls[l].served
    /\ calls[k].ret[1] \notin Range(Held(store))
    /\ calls[k].ret[1] \in Range(remote)

\* C24: once the initial load has completed, whenever no user operation is
\* under way (every form submit, delete and import made so far has completed,
\* none overlapping another) the App's entries are the entries of the mirror,
\* in the same order.
C24_EntriesTrackMirror ==
  (~app.isLoading /\ \A c \in Callers : calls[c].pc = "idle") =>
    app.entries = Held(store)

\* C24 witness: the App is loaded and at rest after a form submit for which
\* the remote was not reached: its entries end with the entry minted at clock
\* reading MaxTime, they are the mirror's, and the remote collection is another.
C24_Witness ==
  /\ ~app.isLoading /\ \A c \in Callers : calls[c].pc = "idle"
  /\ Len(app.entries) = 2
  /\ app.entries[1] = SeedEntry
  /\ app.entries[2].id = LocalId(MaxTime)
  /\ app.entries = Held(store)
  /\ remote # app.entries

\* C25: in every reachable state of the App, whatever the order of map
\* clicks, entry selections, cancels, closes and completions of form submits
\* (late ones too), the entry form is open exactly when a temporary marker
\* exists, and the form is not open while an entry is selected.
C25_FormState ==
  /\ app.isFormOpen <=> app.tempMarker # NoMarker
  /\ ~(app.isFormOpen /\ app.selectedEntryId # NoSelection)

\* C25 witness: a form submit has completed and the user has selected its
\* entry, the form is closed and has no marker, and another form submit is
\* still under way: it will complete late.
C25_Witness ==
  \E c \in Callers :
    /\ calls[c].op = "createEntry" /\ InFlight(calls[c])
    /\ app.entries # <<>>
    /\ app.selectedEntryId = app.entries[Len(app.entries)].id
    /\ ~app.isFormOpen /\ app.tempMarker = NoMarker

====
